---- MODULE Spec2Model ----
(***************************************************************************)
(* Retrieval Service of the Yonsei Research Assistant: the SearchExecutor  *)
(* pipeline (RetrieverService -> RankerService -> RefinerService) and the  *)
(* request models it consumes, as a state machine.                         *)
(*                                                                         *)
(* Scores, confidences and thresholds are kept as integers: a confidence   *)
(* or threshold is in hundredths (0.6 is 60), a native score in            *)
(* thousandths (1.0 is 1000).                                              *)
(***************************************************************************)
EXTENDS Integers, Sequences, FiniteSets, TLC

VARIABLES
    request,            \* the SearchRequest handed to the service
    settings,           \* Settings: the CRAG thresholds
    pc,                 \* position of SearchExecutor.execute
    task,               \* per route: state of its task in the gather group
    results,            \* per route: what its task returned
    raw_documents,      \* Step 1 output
    ranked_documents,   \* Step 2 output
    crag_results,       \* Step 3 output
    filtered_documents, \* Step 4 output
    needs_web,          \* Step 5 output
    result,             \* the RetrievalResult returned, or NoResult
    stages,             \* history: the stage calls execute has made, in order
    adapter_calls,      \* history: the routes whose adapter search was invoked
    judge_calls,        \* history: what each judgment call came back with
    rerank_scores,      \* the cross-encoder's score of each content for the query
    deduped,            \* RankerService: output of _deduplicate
    dedup_passes,       \* how many times _deduplicate has been applied
    final_scores,       \* RankerService: fused scores of the ranked documents
    ranked_again,       \* output of a second run of the ranker on the same input
    action_pc,          \* frontend: position of the newStudy form action
    server,             \* frontend: what the API does with the POST
    response,           \* frontend: the Response fetch resolved to
    newStudy,           \* frontend: the StudySummary read from the response
    thrown,             \* frontend: the value thrown inside the try block
    action_result       \* frontend: what the newStudy action ended in

ranker_vars ==
    << rerank_scores, deduped, dedup_passes, final_scores, ranked_again >>

frontend_vars ==
    << action_pc, server, response, newStudy, thrown, action_result >>

vars == << request, settings, pc, task, results, raw_documents,
           ranked_documents, crag_results, filtered_documents, needs_web,
           result, stages, adapter_calls, judge_calls, ranker_vars,
           frontend_vars >>

----------------------------------------------------------------------------
(* Bounds of the model *)

\* largest request.top_k tried
MaxTopK == 2
\* largest number of documents all sources together return in one run
MaxRaw == 3
\* longest judgment list of the counted family handed to the Refiner alone
MaxJudgments == 10
\* longest judgment list of the exhaustive family handed to the Refiner alone
MaxLen == 2

----------------------------------------------------------------------------
(* Enum types and settings *)

VECTOR_DB == "vector_book_db"
YONSEI_HOLDINGS == "yonsei_holdings"
YONSEI_ELECTRONICS == "yonsei_electronics"

RetrievalRoute == { VECTOR_DB, YONSEI_HOLDINGS, YONSEI_ELECTRONICS }

\* the order in which request.routes lists the routes it holds
RouteOrder == << YONSEI_HOLDINGS, YONSEI_ELECTRONICS, VECTOR_DB >>

CORRECT == "correct"
AMBIGUOUS == "ambiguous"
INCORRECT == "incorrect"

RelevanceLevel == { CORRECT, AMBIGUOUS, INCORRECT }

CRAG_RELEVANCE_THRESHOLD == 60
CRAG_INCORRECT_RATIO_THRESHOLD == 70
RERANK_TOP_K == 20
\* the k of _reciprocal_rank_fusion(documents, k=60)
RRF_K == 60

RRF == "rrf"
WEIGHTED == "weighted"
CROSS_ENCODER == "cross_encoder"

FusionMethods == { RRF, WEIGHTED, CROSS_ENCODER }

DefaultSettings ==
    [ relevance_threshold |-> CRAG_RELEVANCE_THRESHOLD,
      incorrect_ratio_threshold |-> CRAG_INCORRECT_RATIO_THRESHOLD,
      fusion_method |-> RRF,
      rerank_top_k |-> RERANK_TOP_K,
      rrf_k |-> RRF_K ]

\* confidence of the judgment a failed or unparseable judgment call falls back to
FallbackConfidence == 0

NoResult == [ kind |-> "none" ]

----------------------------------------------------------------------------
(* Sequence helpers *)

RECURSIVE Flatten(_)
Flatten(ss) ==
    IF ss = << >> THEN << >> ELSE Head(ss) \o Flatten(Tail(ss))

RECURSIVE SelectIdx(_, _, _)
\* the elements of s at the indices of keep that are >= i, in order
SelectIdx(s, keep, i) ==
    IF i > Len(s) THEN << >>
    ELSE IF i \in keep THEN << s[i] >> \o SelectIdx(s, keep, i + 1)
    ELSE SelectIdx(s, keep, i + 1)

Range(s) == { s[i] : i \in 1..Len(s) }

----------------------------------------------------------------------------
(* Request models: SearchQueries and SearchRequest *)

\* A SearchQueries value is the record of which of its fields are given.
QueryFields ==
    { "query_1", "search_field_1", "operator_1",
      "query_2", "search_field_2", "operator_2",
      "query_3", "search_field_3" }

SearchQueriesShapes == [ QueryFields -> BOOLEAN ]

\* (query_1, search_field_1) alone
SingleQuery ==
    [ f \in QueryFields |-> f \in { "query_1", "search_field_1" } ]

\* query_1 and query_3 without query_2: a gap
SparseQuery ==
    [ f \in QueryFields |->
        f \in { "query_1", "search_field_1", "operator_2",
                "query_3", "search_field_3" } ]

\* the mutant of ValidSearchQueries: the sequential-input rule is not enforced
ValidSearchQueriesNoOrder(q) ==
    /\ q["query_1"] /\ q["search_field_1"]
    /\ q["query_2"] => q["search_field_2"]
    /\ q["query_3"] => (q["operator_2"] /\ q["search_field_3"])

\* SearchQueries: the required fields and the validation rules
ValidSearchQueries(q) ==
    /\ q["query_1"] /\ q["search_field_1"]
    /\ q["query_3"] => q["query_2"]
    /\ q["query_2"] => q["search_field_2"]
    /\ q["query_3"] => (q["operator_2"] /\ q["search_field_3"])

\* SearchRequest: queries must validate; routes is any list of routes and
\* top_k any integer (no rule of the model constrains them)
ValidSearchRequest(r) ==
    /\ ValidSearchQueries(r.queries)
    /\ r.routes \subseteq RetrievalRoute
    /\ r.top_k \in Int

\* request.routes as the list it is, in RouteOrder
RouteList(routes) ==
    SelectIdx(RouteOrder, { i \in 1..Len(RouteOrder) : RouteOrder[i] \in routes }, 1)

----------------------------------------------------------------------------
(* Source adapters *)

\* the content of the hits each source holds for the query, best first
Corpus(route) ==
    CASE route = YONSEI_HOLDINGS -> << "a", "b" >>
      [] route = YONSEI_ELECTRONICS -> << "b", "c" >>
      [] route = VECTOR_DB -> << "a", "c" >>

\* Document of the hit at 0-based rank: score 1.0 / (rank + 1), and
\* 1.0 / (1.0 + distance) with distance = rank for the vector index
Document(route, rank) ==
    [ content |-> Corpus(route)[(rank % Len(Corpus(route))) + 1],
      data_source |-> route,
      score |-> 1000 \div (rank + 1) ]

\* adapter.search(params, top_k) returning n hits
Hits(route, n) == [ i \in 1..n |-> Document(route, i - 1) ]

----------------------------------------------------------------------------
(* RetrieverService *)

\* the mutant of GatherRoutes: the vector index joins the gather group
GatherRoutesAll(routes) == routes

\* the routes retrieve_all puts in the asyncio.gather group
GatherRoutes(routes) == routes \ { VECTOR_DB }

RECURSIVE DropSeenContent(_, _)
\* the documents of s whose content is not in seen and not met earlier in s
DropSeenContent(s, seen) ==
    IF s = << >> THEN << >>
    ELSE IF Head(s).content \in seen
         THEN DropSeenContent(Tail(s), seen)
         ELSE << Head(s) >> \o
              DropSeenContent(Tail(s), seen \cup { Head(s).content })

\* the mutant of MergeResults: a content met before is merged only once
MergeResultsDistinct(routes, tk, res) ==
    DropSeenContent(
        Flatten([ i \in 1..Len(RouteList(routes)) |->
                    IF tk[RouteList(routes)[i]] = "ok"
                    THEN res[RouteList(routes)[i]] ELSE << >> ]), { })

\* step 5 of retrieve_all: the results that are document lists are merged, in
\* the order of the results list (gather's tasks in route order, the vector
\* index appended last); a result that is an exception is skipped
MergeResults(routes, tk, res) ==
    Flatten([ i \in 1..Len(RouteList(routes)) |->
                IF tk[RouteList(routes)[i]] = "ok"
                THEN res[RouteList(routes)[i]] ELSE << >> ])

----------------------------------------------------------------------------
(* RankerService *)

RankedDocument(doc, rank) ==
    [ content |-> doc.content,
      data_source |-> doc.data_source,
      original_score |-> doc.score,
      rerank_score |-> 0,
      rank |-> rank ]

\* the orders tmp_rerank_and_fuse can return: any shuffle of the documents,
\* ranked 1.. in output order, cut to the top RERANK_TOP_K
TmpRerankAndFuse(documents) ==
    { [ i \in 1..(IF Len(documents) < RERANK_TOP_K
                  THEN Len(documents) ELSE RERANK_TOP_K) |->
          RankedDocument(documents[p[i]], i) ] :
      p \in Permutations(1..Len(documents)) }

\* the content-based hash _deduplicate compares documents by
Fingerprint(doc) == doc.content

\* the indices of the documents that collide with documents[i]
Colliding(documents, i) ==
    { j \in 1..Len(documents) :
        Fingerprint(documents[j]) = Fingerprint(documents[i]) }

\* of the documents colliding with documents[i], the one that is kept: the
\* higher native score, the earlier one among equal scores
Survivor(documents, i) ==
    documents[CHOOSE j \in Colliding(documents, i) :
                \A l \in Colliding(documents, i) :
                    \/ documents[j].score > documents[l].score
                    \/ documents[j].score = documents[l].score /\ j <= l]

\* the mutant of Deduplicate: a pass drops only the last document that repeats
\* an earlier one
DeduplicateOnePass(documents) ==
    LET repeats == { i \in 1..Len(documents) :
                       \E j \in 1..(i - 1) : j \in Colliding(documents, i) }
        last == CHOOSE i \in repeats : \A j \in repeats : j <= i
    IN  IF repeats = { } THEN documents
        ELSE SelectIdx(documents, (1..Len(documents)) \ { last }, 1)

\* the mutant of Deduplicate: the document met first is kept, whatever its score
DeduplicateKeepFirst(documents) ==
    SelectIdx(documents,
              { i \in 1..Len(documents) :
                  \A j \in 1..(i - 1) : j \notin Colliding(documents, i) },
              1)

\* step 1 of rerank_and_fuse, _deduplicate: one document per fingerprint, in
\* the order in which the fingerprints are first met
Deduplicate(documents) ==
    SelectIdx([ i \in 1..Len(documents) |-> Survivor(documents, i) ],
              { i \in 1..Len(documents) :
                  \A j \in 1..(i - 1) : j \notin Colliding(documents, i) },
              1)

\* step 2 of rerank_and_fuse, _cross_encoder_rerank: the score of the model for
\* the user query and the document's content
CrossEncoderScore(scores, doc) == scores[doc.content]

\* the rank of documents[i] in its own source: 1 for its best native score
NativeRank(documents, i) ==
    1 + Cardinality(
          { j \in 1..Len(documents) :
              /\ documents[j].data_source = documents[i].data_source
              /\ \/ documents[j].score > documents[i].score
                 \/ documents[j].score = documents[i].score /\ j < i })

\* the mutant of RRFScore: the native rank is ignored
RRFScoreRankBlind(k, rank) == 1000000 \div (k + 1)

\* _reciprocal_rank_fusion: 1/(k + rank), in millionths
RRFScore(k, rank) == 1000000 \div (k + rank)

\* the default weights of _weighted_fusion, in hundredths
SourceWeight(source) == IF source = VECTOR_DB THEN 60 ELSE 40

\* step 3 of rerank_and_fuse: the score the documents are ordered by
FinalScore(documents, i, scores, cfg) ==
    CASE cfg.fusion_method = RRF ->
           RRFScore(cfg.rrf_k, NativeRank(documents, i))
      [] cfg.fusion_method = WEIGHTED ->
           CrossEncoderScore(scores, documents[i])
             * SourceWeight(documents[i].data_source)
      [] cfg.fusion_method = CROSS_ENCODER ->
           CrossEncoderScore(scores, documents[i])

\* the indices of documents by descending final score, equal scores in the
\* order of the list
SortedByFinalScore(documents, scores, cfg) ==
    LET final == [ i \in 1..Len(documents) |->
                     FinalScore(documents, i, scores, cfg) ]
    IN  [ p \in 1..Len(documents) |->
            CHOOSE i \in 1..Len(documents) :
                p = 1 + Cardinality(
                      { j \in 1..Len(documents) :
                          \/ final[j] > final[i]
                          \/ final[j] = final[i] /\ j < i }) ]

\* the mutant of TopK: nothing is cut
TopKAll(s, k) == s

\* step 4 of rerank_and_fuse: the first k of the ordered list
TopK(s, k) == SubSeq(s, 1, IF Len(s) < k THEN Len(s) ELSE k)

\* the mutant of RankedIndices: documents of equal final score come out in the
\* reverse of their order in the list
RankedIndicesTiesReversed(documents, scores, cfg) ==
    LET final == [ i \in 1..Len(documents) |->
                     FinalScore(documents, i, scores, cfg) ]
    IN  TopK([ p \in 1..Len(documents) |->
                 CHOOSE i \in 1..Len(documents) :
                     p = 1 + Cardinality(
                           { j \in 1..Len(documents) :
                               \/ final[j] > final[i]
                               \/ final[j] = final[i] /\ j > i }) ],
             cfg.rerank_top_k)

\* rerank_and_fuse on a deduplicated list: the kept indices in output order
RankedIndices(documents, scores, cfg) ==
    TopK(SortedByFinalScore(documents, scores, cfg), cfg.rerank_top_k)

\* rerank_and_fuse on a deduplicated list: the RankedDocuments, ranked from 1
RerankAndFuseOf(documents, scores, cfg) ==
    LET kept == RankedIndices(documents, scores, cfg)
    IN  [ p \in 1..Len(kept) |->
            [ RankedDocument(documents[kept[p]], p)
                EXCEPT !.rerank_score =
                         CrossEncoderScore(scores, documents[kept[p]]) ] ]

\* the final scores of the documents rerank_and_fuse returns, in output order
FinalScoresOf(documents, scores, cfg) ==
    LET kept == RankedIndices(documents, scores, cfg)
    IN  [ p \in 1..Len(kept) |-> FinalScore(documents, kept[p], scores, cfg) ]

----------------------------------------------------------------------------
(* RefinerService *)

\* what one judgment call of _evaluate_single_document can come back with
JudgeOutcomes ==
    { [ ok |-> TRUE, relevance |-> CORRECT, confidence |-> 90 ],
      [ ok |-> TRUE, relevance |-> AMBIGUOUS, confidence |-> 80 ],
      [ ok |-> TRUE, relevance |-> AMBIGUOUS, confidence |-> 40 ],
      [ ok |-> TRUE, relevance |-> INCORRECT, confidence |-> 95 ],
      [ ok |-> FALSE, relevance |-> AMBIGUOUS, confidence |-> 0 ] }

\* the mutant of CRAGResult: a failed call is taken for a certain AMBIGUOUS
CRAGResultFailureConfident(doc, outcome) ==
    IF outcome.ok
    THEN [ document |-> doc, relevance |-> outcome.relevance,
           confidence |-> outcome.confidence ]
    ELSE [ document |-> doc, relevance |-> AMBIGUOUS, confidence |-> 100 ]

\* the mutant of CRAGResult: a failed call condemns the document
CRAGResultFailureIncorrect(doc, outcome) ==
    IF outcome.ok
    THEN [ document |-> doc, relevance |-> outcome.relevance,
           confidence |-> outcome.confidence ]
    ELSE [ document |-> doc, relevance |-> INCORRECT,
           confidence |-> FallbackConfidence ]

\* CRAGResult of one document: the parsed response, or the AMBIGUOUS fallback
CRAGResult(doc, outcome) ==
    IF outcome.ok
    THEN [ document |-> doc, relevance |-> outcome.relevance,
           confidence |-> outcome.confidence ]
    ELSE [ document |-> doc, relevance |-> AMBIGUOUS,
           confidence |-> FallbackConfidence ]

\* the mutant of KeepDocument: an AMBIGUOUS document needs more than the threshold
KeepDocumentStrict(crag, threshold) ==
    \/ crag.relevance = CORRECT
    \/ crag.relevance = AMBIGUOUS /\ crag.confidence > threshold

\* the filtering rule of filter_by_quality for one CRAGResult
KeepDocument(crag, threshold) ==
    \/ crag.relevance = CORRECT
    \/ crag.relevance = AMBIGUOUS /\ crag.confidence >= threshold

\* the mutant of FilterByQuality: the survivors are ranked anew from 1
FilterByQualityRenumbered(crags, threshold) ==
    [ i \in 1..Len(SelectIdx(crags,
                     { k \in 1..Len(crags) : KeepDocument(crags[k], threshold) }, 1)) |->
        [ SelectIdx(crags,
                    { k \in 1..Len(crags) : KeepDocument(crags[k], threshold) },
                    1)[i].document EXCEPT !.rank = i ] ]

\* filter_by_quality(crag_results)
FilterByQuality(crags, threshold) ==
    [ i \in 1..Len(SelectIdx(crags,
                     { k \in 1..Len(crags) : KeepDocument(crags[k], threshold) }, 1)) |->
        SelectIdx(crags,
                  { k \in 1..Len(crags) : KeepDocument(crags[k], threshold) }, 1)[i].document ]

IncorrectCount(crags) ==
    Cardinality({ i \in 1..Len(crags) : crags[i].relevance = INCORRECT })

\* incorrect_count / total_documents divides by zero on an empty list
NeedsWebSearchRaises(crags) == Len(crags) = 0

\* the mutant of NeedsWebSearch: the ratio reaching the threshold is enough
NeedsWebSearchAtLeast(crags, threshold) ==
    IncorrectCount(crags) * 100 >= threshold * Len(crags)

\* needs_web_search(crag_results): incorrect_ratio > threshold, the ratio
\* incorrect_count / total_documents compared in hundredths
NeedsWebSearch(crags, threshold) ==
    IncorrectCount(crags) * 100 > threshold * Len(crags)

----------------------------------------------------------------------------
(* SearchExecutor.execute *)

\* the five stage calls of execute, in the order the code makes them
StageOrder ==
    << "retrieve_all", "rerank_and_fuse", "evaluate_relevance",
       "filter_by_quality", "needs_web_search" >>

\* the mutant of Continue: filter_by_quality is called before evaluate_relevance
ContinueFilterFirst(stage) ==
    CASE stage = "retrieve_all" -> "rerank_and_fuse"
      [] stage = "rerank_and_fuse" -> "filter_by_quality"
      [] stage = "filter_by_quality" -> "evaluate_relevance"
      [] stage = "evaluate_relevance" -> "needs_web_search"
      [] stage = "needs_web_search" -> "assemble"

\* where execute goes when a stage has returned: the call of the next stage,
\* or the assembly of the RetrievalResult after Step 5
Continue(stage) ==
    CASE stage = "retrieve_all" -> "rerank_and_fuse"
      [] stage = "rerank_and_fuse" -> "evaluate_relevance"
      [] stage = "evaluate_relevance" -> "filter_by_quality"
      [] stage = "filter_by_quality" -> "needs_web_search"
      [] stage = "needs_web_search" -> "assemble"

\* the positions of execute that are inside a stage call
InsideStage == { "gather", "vector", "merge", "judging" }

\* sources_used: the distinct data sources of the documents that survived
SourcesUsed(documents) == { documents[i].data_source : i \in 1..Len(documents) }

\* the mutant of RetrievalResult: after_crag counts the judgments and
\* sources_used names the sources of all retrieved documents
RetrievalResultCountsJudged(documents, crags, raw, ranked, web) ==
    [ kind |-> "result",
      documents |-> documents,
      crag_analysis |-> crags,
      metadata |-> [ total_retrieved |-> Len(raw),
                     after_rerank |-> Len(ranked),
                     after_crag |-> Len(crags),
                     sources_used |-> SourcesUsed(raw) ],
      needs_web_search |-> web ]

\* the mutant of RetrievalResult: only the judgments of the kept documents
RetrievalResultKeptOnly(documents, crags, raw, ranked, web) ==
    [ kind |-> "result",
      documents |-> documents,
      crag_analysis |->
        SelectIdx(crags,
                  { k \in 1..Len(crags) : crags[k].document \in Range(documents) },
                  1),
      metadata |-> [ total_retrieved |-> Len(raw),
                     after_rerank |-> Len(ranked),
                     after_crag |-> Len(documents),
                     sources_used |-> SourcesUsed(documents) ],
      needs_web_search |-> web ]

RetrievalResult(documents, crags, raw, ranked, web) ==
    [ kind |-> "result",
      documents |-> documents,
      crag_analysis |-> crags,
      metadata |-> [ total_retrieved |-> Len(raw),
                     after_rerank |-> Len(ranked),
                     after_crag |-> Len(documents),
                     sources_used |-> SourcesUsed(documents) ],
      needs_web_search |-> web ]

\* an exception leaving execute, raised inside the named stage
Raised(stage) == [ kind |-> "exception", stage |-> stage ]

----------------------------------------------------------------------------
(* Initial states *)

\* the contents a source can hold
Contents == { "a", "b", "c" }

\* the RankerService has ranked nothing yet; the cross-encoder gives every
\* content the same score
InitRanker ==
    /\ rerank_scores = [ c \in Contents |-> 50 ]
    /\ deduped = << >>
    /\ dedup_passes = 0
    /\ final_scores = << >>
    /\ ranked_again = [ done |-> FALSE, documents |-> << >> ]

\* no form action of the frontend is running
InitFrontend ==
    /\ action_pc = "idle"
    /\ server = [ fetch_throws |-> FALSE, status |-> 200, body |-> 0 ]
    /\ response = [ kind |-> "none" ]
    /\ newStudy = [ kind |-> "none" ]
    /\ thrown = [ kind |-> "none" ]
    /\ action_result = [ kind |-> "none" ]

InitRun ==
    /\ settings = DefaultSettings
    /\ pc = "construct"
    /\ task = [ r \in RetrievalRoute |-> "none" ]
    /\ results = [ r \in RetrievalRoute |-> << >> ]
    /\ raw_documents = << >>
    /\ ranked_documents = << >>
    /\ crag_results = << >>
    /\ filtered_documents = << >>
    /\ needs_web = FALSE
    /\ result = NoResult
    /\ stages = << >>
    /\ adapter_calls = { }
    /\ judge_calls = << >>
    /\ InitRanker

\* a request of any route set and top_k, with one well-formed and one sparse
\* SearchQueries
Init ==
    /\ request \in [ queries : { SingleQuery, SparseQuery },
                     routes : SUBSET RetrievalRoute,
                     top_k : 1..MaxTopK ]
    /\ InitRun
    /\ InitFrontend

----------------------------------------------------------------------------
(* Actions *)

\* the request model is constructed: Pydantic validation accepts or rejects it
ConstructRequest ==
    /\ pc = "construct"
    /\ pc' = IF ValidSearchRequest(request) THEN "accepted" ELSE "rejected"
    /\ UNCHANGED << request, settings, task, results, raw_documents,
                    ranked_documents, crag_results, filtered_documents,
                    needs_web, result, stages, adapter_calls,
                    judge_calls, ranker_vars,
                    frontend_vars >>

\* Step 1 begins: retrieve_all creates one task per route other than VECTOR_DB
\* and awaits asyncio.gather(*tasks, return_exceptions=True)
CallRetrieveAll ==
    /\ pc = "accepted"
    /\ stages' = Append(stages, "retrieve_all")
    /\ task' = [ r \in RetrievalRoute |->
                   IF r \in GatherRoutes(request.routes) THEN "running" ELSE "none" ]
    /\ pc' = "gather"
    /\ UNCHANGED << request, settings, results, raw_documents,
                    ranked_documents, crag_results, filtered_documents,
                    needs_web, result, adapter_calls,
                    judge_calls, ranker_vars,
                    frontend_vars >>

DocumentsSoFar ==
    Len(Flatten([ i \in 1..Len(RouteOrder) |-> results[RouteOrder[i]] ]))

\* a task of the gather group returns its adapter's hits
TaskReturns(r, n) ==
    /\ pc = "gather"
    /\ task[r] = "running"
    /\ n <= request.top_k
    /\ DocumentsSoFar + n <= MaxRaw
    /\ task' = [ task EXCEPT ![r] = "ok" ]
    /\ results' = [ results EXCEPT ![r] = Hits(r, n) ]
    /\ adapter_calls' = adapter_calls \cup { r }
    /\ UNCHANGED << request, settings, pc, raw_documents, ranked_documents,
                    crag_results, filtered_documents, needs_web, result, stages,
                    judge_calls, ranker_vars,
                    frontend_vars >>

\* a task of the gather group raises (request_to_search_params or search):
\* return_exceptions=True makes the exception the task's result
TaskRaises(r) ==
    /\ pc = "gather"
    /\ task[r] = "running"
    /\ task' = [ task EXCEPT ![r] = "exc" ]
    /\ adapter_calls' = adapter_calls \cup { r }
    /\ UNCHANGED << request, settings, pc, results, raw_documents,
                    ranked_documents, crag_results, filtered_documents,
                    needs_web, result, stages,
                    judge_calls, ranker_vars,
                    frontend_vars >>

\* the mutant of GatherReturns: the gather does not wait for its tasks
GatherReturnsEarly ==
    /\ pc = "gather"
    /\ pc' = IF VECTOR_DB \in request.routes THEN "vector" ELSE "merge"
    /\ UNCHANGED << request, settings, task, results, raw_documents,
                    ranked_documents, crag_results, filtered_documents,
                    needs_web, result, stages, adapter_calls,
                    judge_calls, ranker_vars,
                    frontend_vars >>

\* asyncio.gather returns once every task of the group has finished
GatherReturns ==
    /\ pc = "gather"
    /\ \A r \in RetrievalRoute : task[r] # "running"
    /\ pc' = IF VECTOR_DB \in request.routes THEN "vector" ELSE "merge"
    /\ UNCHANGED << request, settings, task, results, raw_documents,
                    ranked_documents, crag_results, filtered_documents,
                    needs_web, result, stages, adapter_calls,
                    judge_calls, ranker_vars,
                    frontend_vars >>

\* the vector index is searched on its own, after the gather: its hits are
\* appended to the results
VectorReturns(n) ==
    /\ pc = "vector"
    /\ n <= request.top_k
    /\ DocumentsSoFar + n <= MaxRaw
    /\ task' = [ task EXCEPT ![VECTOR_DB] = "ok" ]
    /\ results' = [ results EXCEPT ![VECTOR_DB] = Hits(VECTOR_DB, n) ]
    /\ adapter_calls' = adapter_calls \cup { VECTOR_DB }
    /\ pc' = "merge"
    /\ UNCHANGED << request, settings, raw_documents, ranked_documents,
                    crag_results, filtered_documents, needs_web, result, stages,
                    judge_calls, ranker_vars,
                    frontend_vars >>

\* the awaited vector search raises: nothing in retrieve_all or execute catches it
VectorRaises ==
    /\ pc = "vector"
    /\ task' = [ task EXCEPT ![VECTOR_DB] = "exc" ]
    /\ adapter_calls' = adapter_calls \cup { VECTOR_DB }
    /\ result' = Raised("retrieve_all")
    /\ pc' = "raised"
    /\ UNCHANGED << request, settings, results, raw_documents, ranked_documents,
                    crag_results, filtered_documents, needs_web, stages,
                    judge_calls, ranker_vars,
                    frontend_vars >>

\* retrieve_all merges the results and returns them to execute
RetrieveAllReturns ==
    /\ pc = "merge"
    /\ raw_documents' = MergeResults(request.routes, task, results)
    /\ pc' = Continue("retrieve_all")
    /\ UNCHANGED << request, settings, task, results, ranked_documents,
                    crag_results, filtered_documents, needs_web, result,
                    stages, adapter_calls,
                    judge_calls, ranker_vars,
                    frontend_vars >>

\* Step 2: the ranker in use, tmp_rerank_and_fuse
RerankAndFuse ==
    /\ pc = "rerank_and_fuse"
    /\ stages' = Append(stages, "rerank_and_fuse")
    /\ ranked_documents' \in TmpRerankAndFuse(raw_documents)
    /\ pc' = Continue("rerank_and_fuse")
    /\ UNCHANGED << request, settings, task, results, raw_documents,
                    crag_results, filtered_documents, needs_web, result,
                    adapter_calls,
                    judge_calls, ranker_vars,
                    frontend_vars >>

\* Step 3 begins
CallEvaluateRelevance ==
    /\ pc = "evaluate_relevance"
    /\ stages' = Append(stages, "evaluate_relevance")
    /\ crag_results' = << >>
    /\ judge_calls' = << >>
    /\ pc' = "judging"
    /\ UNCHANGED << request, settings, task, results, raw_documents,
                    ranked_documents, filtered_documents, needs_web, result,
                    adapter_calls, ranker_vars,
                    frontend_vars >>

\* _evaluate_single_document for the next ranked document
EvaluateSingleDocument(outcome) ==
    /\ pc = "judging"
    /\ Len(crag_results) < Len(ranked_documents)
    /\ crag_results' =
         Append(crag_results,
                CRAGResult(ranked_documents[Len(crag_results) + 1], outcome))
    /\ judge_calls' = Append(judge_calls, outcome)
    /\ UNCHANGED << request, settings, pc, task, results, raw_documents,
                    ranked_documents, filtered_documents, needs_web, result,
                    stages, adapter_calls, ranker_vars,
                    frontend_vars >>

\* evaluate_relevance returns the CRAGResult of every ranked document
EvaluateRelevanceReturns ==
    /\ pc = "judging"
    /\ Len(crag_results) = Len(ranked_documents)
    /\ pc' = Continue("evaluate_relevance")
    /\ UNCHANGED << request, settings, task, results, raw_documents,
                    ranked_documents, crag_results, filtered_documents,
                    needs_web, result, stages, adapter_calls,
                    judge_calls, ranker_vars,
                    frontend_vars >>

\* Step 4
FilterStep ==
    /\ pc = "filter_by_quality"
    /\ stages' = Append(stages, "filter_by_quality")
    /\ filtered_documents' = FilterByQuality(crag_results, settings.relevance_threshold)
    /\ pc' = Continue("filter_by_quality")
    /\ UNCHANGED << request, settings, task, results, raw_documents,
                    ranked_documents, crag_results, needs_web, result,
                    adapter_calls,
                    judge_calls, ranker_vars,
                    frontend_vars >>

\* Step 5 on a non-empty judgment list
WebSearchStep ==
    /\ pc = "needs_web_search"
    /\ ~NeedsWebSearchRaises(crag_results)
    /\ stages' = Append(stages, "needs_web_search")
    /\ needs_web' = NeedsWebSearch(crag_results, settings.incorrect_ratio_threshold)
    /\ pc' = Continue("needs_web_search")
    /\ UNCHANGED << request, settings, task, results, raw_documents,
                    ranked_documents, crag_results, filtered_documents, result,
                    adapter_calls,
                    judge_calls, ranker_vars,
                    frontend_vars >>

\* Step 5 on an empty judgment list: the division raises ZeroDivisionError,
\* which leaves execute
WebSearchStepRaises ==
    /\ pc = "needs_web_search"
    /\ NeedsWebSearchRaises(crag_results)
    /\ stages' = Append(stages, "needs_web_search")
    /\ result' = Raised("needs_web_search")
    /\ pc' = "raised"
    /\ UNCHANGED << request, settings, task, results, raw_documents,
                    ranked_documents, crag_results, filtered_documents,
                    needs_web, adapter_calls,
                    judge_calls, ranker_vars,
                    frontend_vars >>

\* execute returns the RetrievalResult
ReturnResult ==
    /\ pc = "assemble"
    /\ result' = RetrievalResult(filtered_documents, crag_results,
                                 raw_documents, ranked_documents, needs_web)
    /\ pc' = "returned"
    /\ UNCHANGED << request, settings, task, results, raw_documents,
                    ranked_documents, crag_results, filtered_documents,
                    needs_web, stages, adapter_calls,
                    judge_calls, ranker_vars,
                    frontend_vars >>

Next ==
    \/ ConstructRequest
    \/ CallRetrieveAll
    \/ \E r \in RetrievalRoute, n \in 0..MaxTopK : TaskReturns(r, n)
    \/ \E r \in RetrievalRoute : TaskRaises(r)
    \/ GatherReturns
    \/ \E n \in 0..MaxTopK : VectorReturns(n)
    \/ VectorRaises
    \/ RetrieveAllReturns
    \/ RerankAndFuse
    \/ CallEvaluateRelevance
    \/ \E outcome \in JudgeOutcomes : EvaluateSingleDocument(outcome)
    \/ EvaluateRelevanceReturns
    \/ FilterStep
    \/ WebSearchStep
    \/ WebSearchStepRaises
    \/ ReturnResult

Spec == Init /\ [][Next]_vars

----------------------------------------------------------------------------
(* Request validation followed by Step 1 alone, over every SearchQueries    *)
(* shape                                                                    *)

InitValidation ==
    /\ request \in [ queries : SearchQueriesShapes,
                     routes : SUBSET RetrievalRoute,
                     top_k : 1..MaxTopK ]
    /\ InitRun
    /\ InitFrontend

NextValidation ==
    \/ ConstructRequest
    \/ CallRetrieveAll
    \/ \E r \in RetrievalRoute, n \in 0..MaxTopK : TaskReturns(r, n)
    \/ \E r \in RetrievalRoute : TaskRaises(r)
    \/ GatherReturns
    \/ \E n \in 0..MaxTopK : VectorReturns(n)
    \/ VectorRaises
    \/ RetrieveAllReturns

SpecValidation == InitValidation /\ [][NextValidation]_vars

----------------------------------------------------------------------------
(* Steps 4 and 5 alone: execute has reached the call of filter_by_quality   *)
(* with a judgment list drawn from three families                           *)

Confidences == { 0, 40, 60, 80, 95 }

Verdicts == [ relevance : RelevanceLevel, confidence : Confidences ]

RelevanceThresholds == { 0, 40, 60, 100 }

IncorrectRatioThresholds == { 50, 70 }

\* every verdict list up to MaxLen
ExhaustiveVerdicts == UNION { [ 1..n -> Verdicts ] : n \in 0..MaxLen }

Fillers ==
    { [ relevance |-> CORRECT, confidence |-> 90 ],
      [ relevance |-> AMBIGUOUS, confidence |-> 80 ],
      [ relevance |-> AMBIGUOUS, confidence |-> 40 ] }

\* n verdicts of which k are INCORRECT, at the head or at the tail of the list
CountedVerdicts ==
    UNION { { [ i \in 1..n |->
                IF (first /\ i <= k) \/ (~first /\ i > n - k)
                THEN [ relevance |-> INCORRECT, confidence |-> 95 ]
                ELSE filler ] :
              k \in 0..n, first \in BOOLEAN, filler \in Fillers } :
            n \in 1..MaxJudgments }

\* the list [(CORRECT, 0.9), (AMBIGUOUS, 0.8), (AMBIGUOUS, 0.4), (INCORRECT, 0.95)]
ExampleVerdicts ==
    << [ relevance |-> CORRECT, confidence |-> 90 ],
       [ relevance |-> AMBIGUOUS, confidence |-> 80 ],
       [ relevance |-> AMBIGUOUS, confidence |-> 40 ],
       [ relevance |-> INCORRECT, confidence |-> 95 ] >>

\* the state of execute at the call of filter_by_quality when one source
\* returned Len(verdicts) hits for a request with top_k = MaxJudgments, the ranker kept their order and the judgment
\* calls came back with the verdicts
\* the judgment calls that lead to the verdicts: each call answered its
\* verdict, or (failed) every call whose verdict is the fallback's had failed
CallsOf(verdicts, failed) ==
    [ i \in 1..Len(verdicts) |->
        [ ok |-> ~( /\ failed
                    /\ verdicts[i].relevance = AMBIGUOUS
                    /\ verdicts[i].confidence = FallbackConfidence ),
          relevance |-> verdicts[i].relevance,
          confidence |-> verdicts[i].confidence ] ]

InitRefiner ==
    \E verdicts \in ExhaustiveVerdicts \cup CountedVerdicts \cup { ExampleVerdicts },
       failed \in BOOLEAN :
        /\ request = [ queries |-> SingleQuery,
                       routes |-> { YONSEI_HOLDINGS },
                       top_k |-> MaxJudgments ]
        /\ settings \in { [ DefaultSettings EXCEPT
                                !.relevance_threshold = t,
                                !.incorrect_ratio_threshold = u ] :
                            t \in RelevanceThresholds,
                            u \in IncorrectRatioThresholds }
        /\ pc = "filter_by_quality"
        /\ task = [ r \in RetrievalRoute |->
                      IF r = YONSEI_HOLDINGS THEN "ok" ELSE "none" ]
        /\ results = [ r \in RetrievalRoute |->
                         IF r = YONSEI_HOLDINGS
                         THEN Hits(r, Len(verdicts)) ELSE << >> ]
        /\ raw_documents = Hits(YONSEI_HOLDINGS, Len(verdicts))
        /\ ranked_documents =
             [ i \in 1..Len(verdicts) |->
                 RankedDocument(Hits(YONSEI_HOLDINGS, Len(verdicts))[i], i) ]
        /\ crag_results =
             [ i \in 1..Len(verdicts) |->
                 CRAGResult(
                     RankedDocument(Hits(YONSEI_HOLDINGS, Len(verdicts))[i], i),
                     CallsOf(verdicts, failed)[i]) ]
        /\ filtered_documents = << >>
        /\ needs_web = FALSE
        /\ result = NoResult
        /\ stages = << "retrieve_all", "rerank_and_fuse", "evaluate_relevance" >>
        /\ adapter_calls = { YONSEI_HOLDINGS }
        /\ judge_calls = CallsOf(verdicts, failed)
        /\ InitRanker
        /\ InitFrontend

NextRefiner ==
    \/ FilterStep
    \/ WebSearchStep
    \/ WebSearchStepRaises
    \/ ReturnResult

SpecRefiner == InitRefiner /\ [][NextRefiner]_vars

----------------------------------------------------------------------------
(* The RankerService alone: rerank_and_fuse on every short document list *)

\* most deduplication passes over one list
MaxPasses == 2

RankerContents == { "a", "b" }
RankerSources == { YONSEI_HOLDINGS, VECTOR_DB }
\* 1/(rank+1) of the first two native ranks, in thousandths
NativeScores == { 500, 1000 }

RankerDocuments ==
    [ content : RankerContents, data_source : RankerSources,
      score : NativeScores ]

RawInputs == UNION { [ 1..n -> RankerDocuments ] : n \in 0..MaxRaw }

\* the cross-encoder prefers "a", prefers "b", or scores both alike
CrossEncoderModels ==
    { [ c \in Contents |-> IF c = "a" THEN 90 ELSE 10 ],
      [ c \in Contents |-> IF c = "a" THEN 10 ELSE 90 ],
      [ c \in Contents |-> 50 ] }

\* the fusion methods and top-K values, RRF with k = 0 and with the default k
RankerSettings ==
    { [ DefaultSettings EXCEPT !.fusion_method = m, !.rerank_top_k = t,
                               !.rrf_k = k ] :
        m \in FusionMethods, t \in { 1, RERANK_TOP_K }, k \in { 0, RRF_K } }

\* the settings and cross-encoder models rerank_and_fuse is run with: every
\* model where the method uses its scores, the default k where it does not use k
RankerConfigurations ==
    { c \in RankerSettings \X CrossEncoderModels :
        IF c[1].fusion_method = RRF
        THEN c[2] = [ x \in Contents |-> 50 ]
        ELSE c[1].rrf_k = RRF_K }

\* execute has called rerank_and_fuse with the documents of retrieve_all
InitRankerService ==
    /\ request = [ queries |-> SingleQuery, routes |-> RankerSources,
                   top_k |-> MaxTopK ]
    /\ \E c \in RankerConfigurations :
         /\ settings = c[1]
         /\ rerank_scores = c[2]
    /\ pc = "deduplicate"
    /\ task = [ r \in RetrievalRoute |->
                  IF r \in RankerSources THEN "ok" ELSE "none" ]
    /\ results = [ r \in RetrievalRoute |-> << >> ]
    /\ raw_documents \in RawInputs
    /\ ranked_documents = << >>
    /\ crag_results = << >>
    /\ filtered_documents = << >>
    /\ needs_web = FALSE
    /\ result = NoResult
    /\ stages = << "retrieve_all", "rerank_and_fuse" >>
    /\ adapter_calls = RankerSources
    /\ judge_calls = << >>
    /\ deduped = << >>
    /\ dedup_passes = 0
    /\ final_scores = << >>
    /\ ranked_again = [ done |-> FALSE, documents |-> << >> ]
    /\ InitFrontend

\* step 1 of rerank_and_fuse
DeduplicateStep ==
    /\ pc = "deduplicate"
    /\ deduped' = Deduplicate(raw_documents)
    /\ dedup_passes' = 1
    /\ pc' = "fusion"
    /\ UNCHANGED << request, settings, task, results, raw_documents,
                    ranked_documents, crag_results, filtered_documents,
                    needs_web, result, stages, adapter_calls, judge_calls,
                    rerank_scores, final_scores, ranked_again,
                    frontend_vars >>

\* _deduplicate applied to its own output
DeduplicateAgain ==
    /\ pc = "fusion"
    /\ dedup_passes < MaxPasses
    /\ deduped' = Deduplicate(deduped)
    /\ dedup_passes' = dedup_passes + 1
    /\ UNCHANGED << request, settings, pc, task, results, raw_documents,
                    ranked_documents, crag_results, filtered_documents,
                    needs_web, result, stages, adapter_calls, judge_calls,
                    rerank_scores, final_scores, ranked_again,
                    frontend_vars >>

\* steps 2 to 4 of rerank_and_fuse: rescoring, fusion, sorting, top-K and ranks
FuseAndRank ==
    /\ pc = "fusion"
    /\ ranked_documents' = RerankAndFuseOf(deduped, rerank_scores, settings)
    /\ final_scores' = FinalScoresOf(deduped, rerank_scores, settings)
    /\ pc' = "ranked"
    /\ UNCHANGED << request, settings, task, results, raw_documents,
                    crag_results, filtered_documents, needs_web, result,
                    stages, adapter_calls, judge_calls, rerank_scores,
                    deduped, dedup_passes, ranked_again,
                    frontend_vars >>

NextRankerService ==
    \/ DeduplicateStep
    \/ DeduplicateAgain
    \/ FuseAndRank

SpecRanker == InitRankerService /\ [][NextRankerService]_vars

----------------------------------------------------------------------------
(* The ranking step execute uses, run twice on the same documents *)

\* retrieve_all has returned the hits of all three sources to execute
InitRerun ==
    \E tk \in 1..MaxTopK :
      \E n \in [ RetrievalRoute -> 0..tk ] :
        /\ n[YONSEI_HOLDINGS] + n[YONSEI_ELECTRONICS] + n[VECTOR_DB] <= MaxRaw
        /\ request = [ queries |-> SingleQuery, routes |-> RetrievalRoute,
                       top_k |-> tk ]
        /\ settings = DefaultSettings
        /\ pc = "rerank_and_fuse"
        /\ task = [ r \in RetrievalRoute |-> "ok" ]
        /\ results = [ r \in RetrievalRoute |-> Hits(r, n[r]) ]
        /\ raw_documents =
             MergeResults(RetrievalRoute, [ r \in RetrievalRoute |-> "ok" ],
                          [ r \in RetrievalRoute |-> Hits(r, n[r]) ])
        /\ ranked_documents = << >>
        /\ crag_results = << >>
        /\ filtered_documents = << >>
        /\ needs_web = FALSE
        /\ result = NoResult
        /\ stages = << "retrieve_all" >>
        /\ adapter_calls = RetrievalRoute
        /\ judge_calls = << >>
        /\ InitRanker
        /\ InitFrontend

\* tmp_rerank_and_fuse called once more with the same documents and query
RerankAndFuseAgain ==
    /\ pc = "evaluate_relevance"
    /\ ~ranked_again.done
    /\ \E documents \in TmpRerankAndFuse(raw_documents) :
         ranked_again' = [ done |-> TRUE, documents |-> documents ]
    /\ UNCHANGED << request, settings, pc, task, results, raw_documents,
                    ranked_documents, crag_results, filtered_documents,
                    needs_web, result, stages, adapter_calls, judge_calls,
                    rerank_scores, deduped, dedup_passes, final_scores,
                    frontend_vars >>

NextRerun ==
    \/ RerankAndFuse
    \/ RerankAndFuseAgain

SpecRerun == InitRerun /\ [][NextRerun]_vars

----------------------------------------------------------------------------
(* execute under the event loop: every call that is awaited returns or raises *)

\* a coroutine that can take a step is eventually resumed, and every adapter
\* call and judgment call that is awaited eventually returns or raises
Fairness == WF_vars(Next)

SpecLive == Init /\ [][Next]_vars /\ Fairness

----------------------------------------------------------------------------
(* The frontend's newStudy form action (routes/+page.server.ts) *)

\* largest id of a study the API creates
MaxStudyId == 8

\* the status codes the API answers the POST with
Statuses == { 200, 201, 404, 500 }

\* what the API does with the POST: the request fails, or it is answered with
\* a status and a body that is a StudySummary with an id, or (0) not JSON
ServerBehaviours ==
    { [ fetch_throws |-> TRUE, status |-> 500, body |-> 0 ] } \cup
    [ fetch_throws : { FALSE }, status : Statuses, body : 0..MaxStudyId ]

\* Response.ok: the status is in the range 200-299
ResponseOk(status) == status \in 200..299

\* the TypeError of a failed fetch and the SyntaxError of response.json():
\* instances of Error without a status property
TypeError == [ class |-> "TypeError", is_error |-> TRUE ]
SyntaxError == [ class |-> "SyntaxError", is_error |-> TRUE ]

\* redirect(status, location) of @sveltejs/kit: a Redirect object with a status
\* and a location; Redirect is not a subclass of Error
Redirect(status, location) ==
    [ class |-> "Redirect", is_error |-> FALSE, status |-> status,
      location |-> location ]

\* `/studies/${newStudy.id}`
StudyLocation(id) == [ path |-> "/studies/", id |-> id ]

\* fail(status, ...) of @sveltejs/kit: an ActionFailure returned to the form
Fail(status) == [ kind |-> "fail", status |-> status ]

\* err instanceof Error && 'status' in err
Rethrown(err) == err.is_error /\ "status" \in DOMAIN err

InitNewStudy ==
    /\ request = [ queries |-> SingleQuery, routes |-> RetrievalRoute,
                   top_k |-> MaxTopK ]
    /\ InitRun
    /\ action_pc = "fetch"
    /\ server \in ServerBehaviours
    /\ response = [ kind |-> "none" ]
    /\ newStudy = [ kind |-> "none" ]
    /\ thrown = [ kind |-> "none" ]
    /\ action_result = [ kind |-> "none" ]

pipeline_vars ==
    << request, settings, pc, task, results, raw_documents, ranked_documents,
       crag_results, filtered_documents, needs_web, result, stages,
       adapter_calls, judge_calls, ranker_vars >>

\* const response = await fetch(`${baseUrl}/api/studies/new?...`, POST)
NewStudyFetch ==
    /\ action_pc = "fetch"
    /\ IF server.fetch_throws
       THEN /\ thrown' = TypeError
            /\ action_pc' = "catch"
            /\ UNCHANGED response
       ELSE /\ response' = [ kind |-> "response", status |-> server.status,
                             ok |-> ResponseOk(server.status) ]
            /\ action_pc' = "check"
            /\ UNCHANGED thrown
    /\ UNCHANGED << pipeline_vars, server, newStudy, action_result >>

\* if (!response.ok) return fail(response.status, ...)
NewStudyCheckOk ==
    /\ action_pc = "check"
    /\ IF response.ok
       THEN /\ action_pc' = "json"
            /\ UNCHANGED action_result
       ELSE /\ action_result' = Fail(response.status)
            /\ action_pc' = "done"
    /\ UNCHANGED << pipeline_vars, server, response, newStudy, thrown >>

\* const newStudy: StudySummary = await response.json()
NewStudyJson ==
    /\ action_pc = "json"
    /\ IF server.body = 0
       THEN /\ thrown' = SyntaxError
            /\ action_pc' = "catch"
            /\ UNCHANGED newStudy
       ELSE /\ newStudy' = [ kind |-> "study", id |-> server.body ]
            /\ action_pc' = "redirect"
            /\ UNCHANGED thrown
    /\ UNCHANGED << pipeline_vars, server, response, action_result >>

\* throw redirect(303, `/studies/${newStudy.id}`), inside the try block
NewStudyRedirect ==
    /\ action_pc = "redirect"
    /\ thrown' = Redirect(303, StudyLocation(newStudy.id))
    /\ action_pc' = "catch"
    /\ UNCHANGED << pipeline_vars, server, response, newStudy, action_result >>

\* catch (err): rethrow an Error that has a status, else return fail(500, ...)
NewStudyCatch ==
    /\ action_pc = "catch"
    /\ action_result' =
         IF Rethrown(thrown) THEN [ kind |-> "thrown", value |-> thrown ]
         ELSE Fail(500)
    /\ action_pc' = "done"
    /\ UNCHANGED << pipeline_vars, server, response, newStudy, thrown >>

NextNewStudy ==
    \/ NewStudyFetch
    \/ NewStudyCheckOk
    \/ NewStudyJson
    \/ NewStudyRedirect
    \/ NewStudyCatch

SpecNewStudy == InitNewStudy /\ [][NextNewStudy]_vars

----------------------------------------------------------------------------
(* Properties *)

Finished == pc \in { "returned", "raised" }

Accepted == pc \notin { "construct", "rejected" }

\* the number of judgments of a list that carry the label
CountOf(crags, label) ==
    Cardinality({ i \in 1..Len(crags) : crags[i].relevance = label })

\* the labels and confidences of a judgment list
VerdictsOf(crags) ==
    [ i \in 1..Len(crags) |->
        [ relevance |-> crags[i].relevance, confidence |-> crags[i].confidence ] ]

\* C1: the stage calls execute makes are, at every moment, a prefix of
\* retrieve_all, rerank_and_fuse, evaluate_relevance, filter_by_quality,
\* needs_web_search; a stage is called only while no other stage is running,
\* one call at a time; and a returned RetrievalResult has had all five.
C1_StagesInOrder ==
    /\ [](pc = "returned" => stages = StageOrder)
    /\ [][ stages' # stages =>
             /\ pc \notin InsideStage
             /\ Len(stages') = Len(stages) + 1
             /\ Len(stages') <= Len(StageOrder)
             /\ stages' = SubSeq(StageOrder, 1, Len(stages')) ]_vars

C1_Witness ==
    /\ pc = "returned"
    /\ stages = StageOrder
    /\ Cardinality(adapter_calls) = 3
    /\ Len(result.documents) > 0

\* C2: retrieve_all never raises to execute, whichever requested adapter fails
\* (the vector index included), and once it has returned, every document of
\* every source that succeeded is in its output.
C2_RetrieveAllNeverRaises ==
    /\ ~(pc = "raised" /\ result = Raised("retrieve_all"))
    /\ pc \in { "rerank_and_fuse", "evaluate_relevance", "judging",
                "filter_by_quality", "needs_web_search", "assemble",
                "returned" } =>
         \A r \in request.routes :
             task[r] = "ok" => Range(results[r]) \subseteq Range(raw_documents)

\* C3: when all three sources are requested and exactly one of them raises,
\* the run ends in a RetrievalResult that holds a judgment for every document
\* of the other two sources, returns only documents of those judgments, and
\* does not name the failing source in metadata.sources_used.
C3_OneFailingSourceIsIsolated ==
    ( /\ Finished
      /\ request.routes = RetrievalRoute
      /\ Cardinality({ r \in RetrievalRoute : task[r] = "exc" }) = 1 ) =>
        /\ pc = "returned"
        /\ result.kind = "result"
        /\ \A r \in RetrievalRoute : \A i \in 1..Len(results[r]) :
             task[r] = "ok" =>
               \E j \in 1..Len(result.crag_analysis) :
                   /\ result.crag_analysis[j].document.data_source = r
                   /\ result.crag_analysis[j].document.content = results[r][i].content
                   /\ result.crag_analysis[j].document.original_score = results[r][i].score
        /\ \A i \in 1..Len(result.documents) :
             \E j \in 1..Len(result.crag_analysis) :
                 result.crag_analysis[j].document = result.documents[i]
        /\ \A r \in RetrievalRoute :
             task[r] = "exc" => r \notin result.metadata.sources_used

\* C4: a run of an accepted request never ends in an exception: it ends in a
\* RetrievalResult, and when every requested source failed that result has an
\* empty document list and an empty judgment list.
C4_AlwaysARetrievalResult ==
    Finished =>
        /\ pc = "returned"
        /\ result.kind = "result"
        /\ (\A r \in request.routes : task[r] = "exc") =>
             /\ result.documents = << >>
             /\ result.crag_analysis = << >>

\* C5: when every requested source fails (and at least one was requested), the
\* run ends in a RetrievalResult with no documents and needs_web_search = TRUE.
C5_AllSourcesFailed ==
    ( /\ Finished
      /\ request.routes # { }
      /\ \A r \in request.routes : task[r] = "exc" ) =>
        /\ pc = "returned"
        /\ result.kind = "result"
        /\ result.documents = << >>
        /\ result.needs_web_search = TRUE

\* C6: a request with an empty route set is rejected at construction, so that
\* no stage is called for it and no adapter is invoked; and no run ends without
\* a RetrievalResult other than by that rejection.
C6_EmptyRoutesRejected ==
    /\ (request.routes = { } /\ pc # "construct") =>
         /\ pc = "rejected"
         /\ stages = << >>
         /\ adapter_calls = { }
    /\ pc # "raised"

\* C7: a request that got past construction has contiguous, complete clauses:
\* query_1 is there, query_3 only with query_2, query_2 only with
\* search_field_2, query_3 only with operator_2 and search_field_3; a request
\* of any other shape is rejected, and for a rejected request no stage is
\* called and no adapter invoked.
C7_ClausesContiguous ==
    /\ Accepted =>
         /\ request.queries["query_1"]
         /\ request.queries["query_3"] => request.queries["query_2"]
         /\ request.queries["query_2"] => request.queries["search_field_2"]
         /\ request.queries["query_3"] =>
              (request.queries["operator_2"] /\ request.queries["search_field_3"])
         /\ { f \in { "query_1", "query_2", "query_3" } : request.queries[f] } \in
              { { "query_1" }, { "query_1", "query_2" },
                { "query_1", "query_2", "query_3" } }
    /\ pc = "rejected" => (stages = << >> /\ adapter_calls = { })

C7_Witness ==
    /\ pc = "rerank_and_fuse"
    /\ request.queries["query_3"]
    /\ request.queries["query_2"]
    /\ ~request.queries["operator_1"]
    /\ adapter_calls = RetrievalRoute

\* C8: once filter_by_quality has run, a document of the judgment list is in
\* its output exactly when its judgment is CORRECT, or AMBIGUOUS with a
\* confidence of at least the relevance threshold; the output holds nothing
\* else and nothing twice; and for the list [(CORRECT, 0.9), (AMBIGUOUS, 0.8),
\* (AMBIGUOUS, 0.4), (INCORRECT, 0.95)] with threshold 0.6 it is the first two
\* documents.
C8_FilterCompleteness ==
    Len(stages) >= 4 =>
        /\ \A i \in 1..Len(crag_results) :
             (crag_results[i].document \in Range(filtered_documents)) <=>
               \/ crag_results[i].relevance = CORRECT
               \/ /\ crag_results[i].relevance = AMBIGUOUS
                  /\ crag_results[i].confidence >= settings.relevance_threshold
        /\ \A i \in 1..Len(filtered_documents) :
             \E j \in 1..Len(crag_results) :
                 crag_results[j].document = filtered_documents[i]
        /\ \A i, j \in 1..Len(filtered_documents) :
             filtered_documents[i] = filtered_documents[j] => i = j
        /\ (VerdictsOf(crag_results) = ExampleVerdicts
              /\ settings.relevance_threshold = 60) =>
             filtered_documents =
               << crag_results[1].document, crag_results[2].document >>

C8_Witness ==
    /\ Len(stages) >= 4
    /\ VerdictsOf(crag_results) = ExampleVerdicts
    /\ settings.relevance_threshold = 60
    /\ Len(filtered_documents) = 2

C10_WebSearchAtSeventyPercent ==
    ( /\ pc \in { "assemble", "returned" }
      /\ settings.incorrect_ratio_threshold = 70
      /\ CountOf(crag_results, INCORRECT) * 100 >= 70 * Len(crag_results) ) =>
        needs_web


\* C11: needs_web_search on an empty judgment list divides nothing by zero and
\* answers FALSE: the run goes on to return its RetrievalResult with
\* needs_web_search = FALSE.
C11_EmptyListNoEscalation ==
    (Len(crag_results) = 0 /\ Len(stages) >= 5) =>
        /\ pc # "raised"
        /\ needs_web = FALSE
        /\ pc = "returned" => result.needs_web_search = FALSE


\* C12: evaluate_relevance judges the ranked documents one by one, in order:
\* every judgment carries the document it judges, one of the three labels and a
\* confidence between 0 and 1; a document whose call fails is AMBIGUOUS with
\* confidence 0, the run does not end in an exception because of it, and every
\* other document's judgment is what its own call answered.
C12_JudgmentPerDocument ==
    /\ Len(judge_calls) = Len(crag_results)
    /\ Len(stages) >= 3 => Len(crag_results) <= Len(ranked_documents)
    /\ Len(stages) >= 4 => Len(crag_results) = Len(ranked_documents)
    /\ \A i \in 1..Len(crag_results) :
         /\ crag_results[i].document = ranked_documents[i]
         /\ crag_results[i].relevance \in RelevanceLevel
         /\ crag_results[i].confidence \in 0..100
         /\ ~judge_calls[i].ok =>
              /\ crag_results[i].relevance = AMBIGUOUS
              /\ crag_results[i].confidence = 0
         /\ judge_calls[i].ok =>
              /\ crag_results[i].relevance = judge_calls[i].relevance
              /\ crag_results[i].confidence = judge_calls[i].confidence
    /\ (\E i \in 1..Len(judge_calls) : ~judge_calls[i].ok) => pc # "raised"

\* a returned run in which the first call failed and the second answered CORRECT
C12_Witness ==
    /\ pc = "returned"
    /\ Len(judge_calls) >= 2
    /\ ~judge_calls[1].ok
    /\ judge_calls[2].ok
    /\ result.crag_analysis[1].relevance = AMBIGUOUS
    /\ result.crag_analysis[2].relevance = CORRECT


\* the documents retrieve_all has handed to execute
Merged ==
    pc \in { "rerank_and_fuse", "evaluate_relevance", "judging",
             "filter_by_quality", "needs_web_search", "assemble", "returned" }

\* C13: the vector index search is never a task of the gather group: the other
\* requested adapters are started together, the vector index is searched only
\* when none of them is still running, and its documents end in the same merged
\* list as theirs.
C13_VectorSearchSeparate ==
    /\ task[VECTOR_DB] # "running"
    /\ (pc = "gather" /\ adapter_calls = { }) =>
         \A r \in request.routes \ { VECTOR_DB } : task[r] = "running"
    /\ pc = "gather" => VECTOR_DB \notin adapter_calls
    /\ (pc = "vector" \/ VECTOR_DB \in adapter_calls) =>
         \A r \in RetrievalRoute : task[r] # "running"
    /\ Merged =>
         \A r \in request.routes : task[r] = "ok" =>
             \A i \in 1..Len(results[r]) : results[r][i] \in Range(raw_documents)

\* all three routes requested: the merged list holds documents of the vector
\* index and of both gathered adapters
C13_Witness ==
    /\ Merged
    /\ request.routes = RetrievalRoute
    /\ \A r \in RetrievalRoute :
         \E i \in 1..Len(raw_documents) : raw_documents[i].data_source = r


\* the documents of s that carry the provenance tag of source r, in order
FromSource(s, r) == SelectSeq(s, LAMBDA d : d.data_source = r)

\* the list a requested source contributed: its hits, or nothing when it failed
Contribution(r) ==
    IF r \in request.routes /\ task[r] = "ok" THEN results[r] ELSE << >>

\* C14: the list retrieve_all returns is the concatenation of the lists of the
\* sources that succeeded: its length is the sum of their lengths, the
\* documents of each source are in it exactly as that source returned them, and
\* nothing is removed because another source returned the same content.
C14_RetrieverNeverDeduplicates ==
    Merged =>
        /\ Len(raw_documents) =
             Len(Contribution(YONSEI_HOLDINGS))
               + Len(Contribution(YONSEI_ELECTRONICS))
               + Len(Contribution(VECTOR_DB))
        /\ \A r \in RetrievalRoute :
             FromSource(raw_documents, r) = Contribution(r)

\* two sources returned the same content and the merged list holds it twice
C14_Witness ==
    /\ Merged
    /\ \E i, j \in 1..Len(raw_documents) :
         /\ i < j
         /\ raw_documents[i].content = raw_documents[j].content
         /\ raw_documents[i].data_source # raw_documents[j].data_source


\* C15: deduplicating a list that is already the output of the deduplication
\* changes nothing.
C15_DedupIdempotent ==
    [][ (dedup_passes >= 1 /\ dedup_passes' = dedup_passes + 1) =>
            deduped' = deduped ]_vars

\* a list of three documents with one content was deduplicated twice
C15_Witness ==
    /\ dedup_passes = 2
    /\ Len(raw_documents) = 3
    /\ Len(deduped) = 1

PlaceOf(content) ==
    IF \E p \in 1..Len(ranked_documents) : ranked_documents[p].content = content
    THEN CHOOSE p \in 1..Len(ranked_documents) :
             ranked_documents[p].content = content
    ELSE 0

\* C18: under RRF, 1/(k + r1) is strictly more than 1/(k + r2) whenever
\* r1 < r2, for the configured k (0 and the default 60): of two documents of one
\* source the one with the better native rank has the strictly higher fused
\* score and is returned before the other (and is not cut when the other is
\* kept).
C18_RRFMonotone ==
    (pc = "ranked" /\ settings.fusion_method = RRF) =>
        /\ \A r1, r2 \in 1..(MaxRaw + 1) :
             r1 < r2 =>
               RRFScore(settings.rrf_k, r1) > RRFScore(settings.rrf_k, r2)
        /\ \A i, j \in 1..Len(deduped) :
             ( /\ deduped[i].data_source = deduped[j].data_source
               /\ NativeRank(deduped, i) < NativeRank(deduped, j) ) =>
                 /\ FinalScore(deduped, i, rerank_scores, settings)
                      > FinalScore(deduped, j, rerank_scores, settings)
                 /\ PlaceOf(deduped[j].content) # 0 =>
                      /\ PlaceOf(deduped[i].content) # 0
                      /\ PlaceOf(deduped[i].content) < PlaceOf(deduped[j].content)
                      /\ final_scores[PlaceOf(deduped[i].content)]
                           > final_scores[PlaceOf(deduped[j].content)]

\* two documents of one source, the better native score second in the list:
\* RRF with the default k returns it first
C18_Witness ==
    /\ pc = "ranked"
    /\ settings.fusion_method = RRF
    /\ settings.rrf_k = RRF_K
    /\ Len(deduped) = 2
    /\ deduped[1].data_source = deduped[2].data_source
    /\ deduped[1].score < deduped[2].score
    /\ Len(ranked_documents) = 2
    /\ ranked_documents[1].content = deduped[2].content
    /\ final_scores[1] > final_scores[2]


\* C16: the ranking step execute uses, run a second time on the same documents
\* with the same query and configuration, returns the same documents in the
\* same order as the first time.
C16_RerankDeterministic ==
    ranked_again.done => ranked_again.documents = ranked_documents


\* C19: the documents filter_by_quality returns are documents of the judgment
\* list, unchanged in rank and scores and in the order of that list: their
\* ranks are a strictly increasing selection of 1..n, not renumbered.
C19_FilterKeepsOrderAndRanks ==
    Len(stages) >= 4 =>
        /\ \A i \in 1..Len(filtered_documents) :
             /\ filtered_documents[i].rank \in 1..Len(crag_results)
             /\ filtered_documents[i] =
                  crag_results[filtered_documents[i].rank].document
             /\ filtered_documents[i] =
                  ranked_documents[filtered_documents[i].rank]
        /\ \A i, j \in 1..Len(filtered_documents) :
             i < j => filtered_documents[i].rank < filtered_documents[j].rank

\* of three judged documents the second was dropped: the survivors keep the
\* ranks 1 and 3
C19_Witness ==
    /\ Len(stages) >= 4
    /\ Len(crag_results) = 3
    /\ Len(filtered_documents) = 2
    /\ filtered_documents[1].rank = 1
    /\ filtered_documents[2].rank = 3

\* C20: the RetrievalResult execute returns holds in crag_analysis one judgment
\* for each document the ranker returned, in the ranker's order and with the
\* documents the filter dropped, and every document of its document list is
\* the document of one of these judgments.
C20_JudgmentsCompleteInResult ==
    pc = "returned" =>
        /\ Len(result.crag_analysis) = Len(ranked_documents)
        /\ \A i \in 1..Len(ranked_documents) :
             result.crag_analysis[i].document = ranked_documents[i]
        /\ \A i \in 1..Len(result.documents) :
             \E j \in 1..Len(result.crag_analysis) :
                 result.crag_analysis[j].document = result.documents[i]

\* a result with three judgments of which one is of a document the filter
\* dropped
C20_Witness ==
    /\ pc = "returned"
    /\ Len(result.crag_analysis) = 3
    /\ Len(result.documents) = 2
    /\ \E j \in 1..3 :
         /\ result.crag_analysis[j].relevance = INCORRECT
         /\ \A i \in 1..2 : result.documents[i] # result.crag_analysis[j].document


\* C21: in the RetrievalResult execute returns, total_retrieved is the number
\* of documents retrieve_all returned, after_rerank the number of ranked
\* documents, after_crag the number of returned documents, with
\* after_crag <= after_rerank <= total_retrieved, and sources_used is the set
\* of the sources of the returned documents.
C21_MetadataCounts ==
    pc = "returned" =>
        /\ result.metadata.total_retrieved = Len(raw_documents)
        /\ result.metadata.after_rerank = Len(ranked_documents)
        /\ result.metadata.after_crag = Len(result.documents)
        /\ result.metadata.after_crag <= result.metadata.after_rerank
        /\ result.metadata.after_rerank <= result.metadata.total_retrieved
        /\ \A r \in RetrievalRoute :
             r \in result.metadata.sources_used <=>
               \E i \in 1..Len(result.documents) :
                   result.documents[i].data_source = r

\* three documents of two sources were retrieved and ranked, one survived: the
\* counts are 3, 3, 1 and sources_used names the survivor's source only
C21_Witness ==
    /\ pc = "returned"
    /\ result.metadata.total_retrieved = 3
    /\ result.metadata.after_rerank = 3
    /\ result.metadata.after_crag = 1
    /\ Cardinality(result.metadata.sources_used) = 1
    /\ Cardinality({ raw_documents[i].data_source : i \in 1..3 }) >= 2


\* C22: after the deduplication no two documents have the same fingerprint,
\* every fingerprint of the input is still there, and the document kept for a
\* fingerprint is a document of the input with the highest native score of
\* those with that fingerprint, whatever their sources.
C22_DedupKeepsBest ==
    dedup_passes >= 1 =>
        /\ \A i, j \in 1..Len(deduped) :
             i # j => Fingerprint(deduped[i]) # Fingerprint(deduped[j])
        /\ { Fingerprint(d) : d \in Range(deduped) }
             = { Fingerprint(d) : d \in Range(raw_documents) }
        /\ \A d \in Range(deduped) :
             /\ d \in Range(raw_documents)
             /\ \A e \in Range(raw_documents) :
                  Fingerprint(e) = Fingerprint(d) => d.score >= e.score

\* the same content came from holdings with the lower and then from the vector
\* index with the higher native score: the vector index document is kept
C22_Witness ==
    /\ dedup_passes >= 1
    /\ Len(raw_documents) = 2
    /\ raw_documents[1].content = raw_documents[2].content
    /\ raw_documents[1].data_source = YONSEI_HOLDINGS
    /\ raw_documents[2].data_source = VECTOR_DB
    /\ raw_documents[1].score < raw_documents[2].score
    /\ deduped = << raw_documents[2] >>


C26_EventuallyAResult ==
    (pc = "accepted") ~> (pc = "returned" /\ result.kind = "result")


\* every judgment call of a non-empty ranked list failed
AllCallsFailed ==
    /\ Len(ranked_documents) > 0
    /\ Len(judge_calls) = Len(ranked_documents)
    /\ \A i \in 1..Len(judge_calls) : ~judge_calls[i].ok

\* C27: when the judgment call failed for every document of a non-empty ranked
\* list and the relevance threshold is above 0, every judgment is AMBIGUOUS with
\* confidence 0, the filter keeps nothing, needs_web_search is FALSE, and the
\* result returned has no document and one judgment per ranked document.
C27_AllJudgmentsFailed ==
    (AllCallsFailed /\ settings.relevance_threshold > 0) =>
        /\ pc # "raised"
        /\ \A i \in 1..Len(crag_results) :
             /\ crag_results[i].relevance = AMBIGUOUS
             /\ crag_results[i].confidence = 0
        /\ Len(stages) >= 4 => filtered_documents = << >>
        /\ Len(stages) >= 5 => needs_web = FALSE
        /\ pc = "returned" =>
             /\ result.documents = << >>
             /\ Len(result.crag_analysis) = Len(ranked_documents)
             /\ \A i \in 1..Len(ranked_documents) :
                  result.crag_analysis[i].document = ranked_documents[i]
             /\ result.needs_web_search = FALSE

\* both judgment calls of a list of two failed, the threshold is the default:
\* the result has no document, two judgments and no escalation
C27_Witness ==
    /\ AllCallsFailed
    /\ Len(ranked_documents) = 2
    /\ settings.relevance_threshold = CRAG_RELEVANCE_THRESHOLD
    /\ pc = "returned"
    /\ result.documents = << >>
    /\ Len(result.crag_analysis) = 2
    /\ result.needs_web_search = FALSE


\* C28: when the POST is answered with an ok response that carries the new
\* study, the newStudy action ends in the 303 redirect to /studies/<its id>
\* and not in a fail result; it ends in the fail(500) of the catch block only
\* when the request threw (fetch or the reading of its body), and in
\* fail(response.status) only when the response was not ok.
C28_NewStudyRedirects ==
    action_pc = "done" =>
        /\ (~server.fetch_throws /\ ResponseOk(server.status) /\ server.body # 0) =>
             action_result =
               [ kind |-> "thrown",
                 value |-> Redirect(303, StudyLocation(server.body)) ]
        /\ (action_result = Fail(500) /\ thrown # [ kind |-> "none" ]) =>
             thrown \in { TypeError, SyntaxError }
        /\ (action_result.kind = "fail" /\ thrown = [ kind |-> "none" ]) =>
             /\ ~ResponseOk(server.status)
             /\ action_result = Fail(server.status)

====
